---- MODULE Spec2Model ----
(***************************************************************************)
(* A model of background_magic: the %%background cell magic                *)
(* (src/background_magic/__init__.py) and the worker it spawns             *)
(* (src/background_magic/background_runner.py).                            *)
(*                                                                         *)
(* One coordinator (the interactive session's thread) runs the magic's     *)
(* handlers; every submission owns a worker process, a listener thread and *)
(* a variable-transfer (watcher) thread.  Each of them is a small program  *)
(* counter machine; a step of the model is one atomic step of one of them. *)
(* Waits with a timeout (join(timeout=..), Event.wait(5.0), the watcher's  *)
(* 120 s ceiling) may elapse at any moment: time is not measured.          *)
(***************************************************************************)
EXTENDS Integers, Sequences, FiniteSets, TLC

\* ------------------------------------------------------------------ bounds
\* Number of submissions a behaviour makes (task ids are 1..MaxTasks).
MaxTasks == 2

Tasks == 1..MaxTasks

\* ------------------------------------------------------------- finite maps
\* Python dicts are functions with a finite domain of names.
EmptyMap == [k \in {} |-> 0]

\* dict.update(other): other's bindings win, key by key.
Update(m, other) ==
    [k \in (DOMAIN m) \cup (DOMAIN other) |->
        IF k \in DOMAIN other THEN other[k] ELSE m[k]]

\* m with the single binding k -> v added or replaced (m[k] = v).
Bind(m, k, v) == Update(m, [j \in {k} |-> v])

\* {k: v for k, v in m.items() if k in keep}
Restrict(m, keep) == [k \in (DOMAIN m) \cap keep |-> m[k]]

\* ------------------------------------------------------------------ values
\* A value is what serialization does with it:
\*   simple      int, float, str, bool, list, dict, tuple, set (the fast path)
\*   object      any other value cloudpickle can dump and load
\*   unpicklable cloudpickle.dumps raises (a generator, a lock)
\*   module      a module object (dumps by reference succeeds)
\*   noload      dumps succeeds in the caller, loads raises in the worker
Simple(n) == [kind |-> "simple", v |-> n]
Obj == [kind |-> "object", v |-> 0]
Unpicklable == [kind |-> "unpicklable", v |-> 0]
Module == [kind |-> "module", v |-> 0]
NoLoad == [kind |-> "noload", v |-> 0]

\* cloudpickle.dumps(v) succeeds.
Dumps(v) == v.kind # "unpicklable"

\* A worker whose loads never raises.  With it in place of Loads,
\* UnloadableSnapshotNeverRuns fails.
LoadsAnything(ns) == TRUE

\* cloudpickle.loads succeeds on the blob of a snapshot.
Loads(ns) == \A k \in DOMAIN ns : ns[k].kind # "noload"

\* isinstance(value, (int, float, str, bool, list, dict, tuple, set))
IsSimple(v) == v.kind = "simple"

\* is_module_or_unpicklable(obj): true of module objects only.
is_module_or_unpicklable(v) == v.kind = "module"

\* ------------------------------------------------------------------- names
\* The runner module's own globals (exec_globals = globals().copy()):
\* "traceback" stands for the six names the runner never transfers,
\* "Queue" for its other globals (classes and functions that pickle).
RunnerGlobals == [k \in {"traceback", "Queue"} |->
                    IF k = "traceback" THEN Module ELSE Obj]

\* The names run_code_in_background never transfers.
RunnerInternal == {"__builtins__", "contextlib", "QueueStream",
                   "QueueDisplayPublisher", "traceback", "cloudpickle"}

\* Names k with k.startswith('__').
DunderNames == {"__builtins__", "__transfer_complete__", "__p"}

\* Names k with k.startswith('_') (the dunder names included).
UnderscoreNames == DunderNames \cup {"_q"}

\* ipython_builtins_to_skip
ipython_builtins_to_skip == {"In", "Out", "get_ipython", "exit", "quit",
                             "_", "__", "___", "_i", "_ii", "_iii",
                             "_ih", "_oh", "_dh"}

important_vars == {"res", "result", "i", "df", "data"}

\* ------------------------------------------------------------------- cells
\* A cell is its source text, a sequence of statements [op, name, arg]:
\*   assign   name = <literal arg>
\*   copy     name = <the value of the name arg>   (NameError if unbound)
\*   import   import sys as name
\*   print    print(arg)
\*   display  display(obj); arg "badpayload": the listener cannot
\*            deserialize the payload
\*   raise    raise an Exception
\*   exit     sys.exit(): raises SystemExit, which is no Exception
\*   loop     while True: pass
\*   poke     globals()[1] = 0: binds a key that is no string
St(op, name, arg) == [op |-> op, name |-> name, arg |-> arg]

CellText ==
    [c \in {"loop", "out", "xy", "x100", "x200", "result",
            "fault", "exit", "poke", "baddisp", "mod", "gen", "under"} |->
       CASE c = "loop"    -> << St("print", "", "L1"), St("loop", "", 0) >>
         [] c = "out"     -> << St("print", "", "a"), St("print", "", "b"),
                                St("display", "", "payload") >>
         [] c = "xy"      -> << St("assign", "x", Simple(42)),
                                St("assign", "y", Simple(123)) >>
         [] c = "x100"    -> << St("assign", "x", Simple(100)) >>
         [] c = "x200"    -> << St("assign", "x", Simple(200)) >>
         [] c = "result"  -> << St("print", "", "r"),
                                St("copy", "result", "x") >>
         [] c = "fault"   -> << St("assign", "x", Simple(1)),
                                St("raise", "", 0) >>
         [] c = "exit"    -> << St("print", "", "e"), St("exit", "", 0) >>
         [] c = "poke"    -> << St("assign", "x", Simple(7)),
                                St("poke", "", 0) >>
         [] c = "baddisp" -> << St("display", "", "badpayload"),
                                St("print", "", "c") >>
         [] c = "mod"     -> << St("import", "m", 0),
                                St("assign", "x", Simple(5)) >>
         [] c = "gen"     -> << St("assign", "g", Unpicklable),
                                St("assign", "x", Simple(6)) >>
         [] c = "under"   -> << St("assign", "_", Simple(5)) >>]

Cells == DOMAIN CellText

\* hashlib.sha1(cell.encode('utf-8')).hexdigest(): one digest per text.
sha1 ==
    [c \in Cells |->
       CASE c = "loop" -> 101 [] c = "out" -> 102 [] c = "xy" -> 103
         [] c = "x100" -> 104 [] c = "x200" -> 105 [] c = "result" -> 106
         [] c = "fault" -> 107 [] c = "exit" -> 108 [] c = "poke" -> 109
         [] c = "baddisp" -> 110 [] c = "mod" -> 111 [] c = "gen" -> 112
         [] c = "under" -> 113]

\* A faulty fingerprint that is the same for every source text.  With it
\* in place of cell_content_hash, OnlySameSourceCancels fails.
cell_content_hash_constant(c) == 101

cell_content_hash(c) == sha1[c]

\* The textual scan for assignment targets (explicit_vars, loop_vars).
explicit_vars(c) ==
    {CellText[c][i].name : i \in {j \in 1..Len(CellText[c]) :
                                    CellText[c][j].op \in {"assign", "copy"}}}

\* -------------------------------------------------------------------- state
VARIABLES
    kernel,               \* the shell has a kernel with a session and a socket
    user_ns,              \* self.shell.user_ns: the caller's globals
    namespaces,           \* self._namespaces: partition name -> dict
    background_tasks,     \* the keys of self._background_tasks
    cell_hash_to_task_id, \* self._cell_hash_to_task_id: digest -> task id
    task_counter,         \* self._task_counter
    coord,                \* the coordinator thread: handler and position
    task,                 \* task id -> what background() stored or passed
    worker,               \* task id -> the worker process
    queue,                \* task id -> output_queue
    hist,                 \* task id -> every event ever put on output_queue
    listener,             \* task id -> the listener thread's locals
    stop_event,           \* task id -> stop_event.is_set()
    indicator,            \* task id -> the updates applied to its display
    sink,                 \* parent header -> messages sent with it
    result_dict,          \* task id -> the manager dict
    watcher,              \* task id -> the variable-transfer thread
    transfer_complete,    \* task id -> transfer_complete.is_set()
    stopped               \* the tasks for which _stop_task has returned

vars == << kernel, user_ns, namespaces, background_tasks,
           cell_hash_to_task_id, task_counter, coord, task, worker, queue,
           hist, listener, stop_event, indicator, sink, result_dict,
           watcher, transfer_complete, stopped >>

coordVars == << kernel, user_ns, namespaces, background_tasks,
                cell_hash_to_task_id, task_counter, coord, task, stopped >>
listenerVars == << listener, stop_event, indicator, sink >>
watcherVars == << watcher, transfer_complete >>

\* A channel event (msg_type, task_id, content); arg is the variable a
\* warning names.
Ev(type, content, arg) == [type |-> type, content |-> content, arg |-> arg]

Status(content) == Ev("status", content, "")

\* output_queue.put(e) for each e of evs, in order.
Put(t, evs) ==
    /\ queue' = [queue EXCEPT ![t] = @ \o evs]
    /\ hist' = [hist EXCEPT ![t] = @ \o evs]

\* A sequence listing the elements of the finite set S (an iteration order).
RECURSIVE SeqOf(_)
SeqOf(S) == IF S = {} THEN << >>
            ELSE LET x == CHOOSE y \in S : TRUE IN << x >> \o SeqOf(S \ {x})

\* One event per element of the set of names S.
EventsFor(S, type, content) ==
    LET names == SeqOf(S) IN
    [i \in 1..Len(names) |-> Ev(type, content, names[i])]

\* ------------------------------------------------------------------ worker
NoWorker == [pc |-> "none", ip |-> 0, eg |-> EmptyMap, initial |-> {},
             nonstr |-> FALSE, sg |-> EmptyMap, skipped |-> {},
             success |-> {}]

\* process.is_alive()
is_alive(t) == worker[t].pc \notin {"none", "exited", "killed"}

\* run_code_in_background up to status=running: build exec_globals from the
\* runner's globals and the deserialized snapshot, scan the source.
WInit(t) ==
    /\ worker[t].pc = "init"
    /\ LET ctx == task[t].serialized_context
           given == ctx.ok
           scan == explicit_vars(task[t].cell) IN
       IF given /\ ~Loads(ctx.ns)
       THEN /\ Put(t, << Ev("stderr", "Error deserializing context", ""),
                         Status("error"), Status("finished_processing") >>)
            /\ worker' = [worker EXCEPT ![t].pc = "returned"]
       ELSE LET eg0 == IF given THEN Update(RunnerGlobals, ctx.ns)
                       ELSE RunnerGlobals IN
            /\ Put(t, (IF given THEN << >>
                       ELSE << Ev("stderr", "context serialization failed",
                                  "") >>)
                      \o (IF scan # {}
                          THEN << Ev("stderr", "Detected assignments", "") >>
                          ELSE << >>)
                      \o << Status("running") >>)
            /\ worker' = [worker EXCEPT ![t] =
                   [@ EXCEPT !.pc = "exec", !.ip = 1, !.eg = eg0,
                             !.initial = DOMAIN eg0]]
    /\ UNCHANGED << coordVars, listenerVars, watcherVars, result_dict >>

\* exec(code_str, exec_globals): the next statement of the cell.
WExec(t) ==
    /\ worker[t].pc = "exec"
    /\ worker[t].ip <= Len(CellText[task[t].cell])
    /\ LET w == worker[t]
           s == CellText[task[t].cell][w.ip]
           next == [w EXCEPT !.ip = @ + 1] IN
       CASE s.op = "assign" ->
              /\ worker' = [worker EXCEPT ![t] =
                               [next EXCEPT !.eg = Bind(w.eg, s.name, s.arg)]]
              /\ UNCHANGED << queue, hist >>
         [] s.op = "copy" ->
              /\ worker' = [worker EXCEPT ![t] =
                   IF s.arg \in DOMAIN w.eg
                   THEN [next EXCEPT !.eg = Bind(w.eg, s.name, w.eg[s.arg])]
                   ELSE [w EXCEPT !.pc = "except"]]
              /\ UNCHANGED << queue, hist >>
         [] s.op = "import" ->
              /\ worker' = [worker EXCEPT ![t] =
                               [next EXCEPT !.eg = Bind(w.eg, s.name, Module)]]
              /\ UNCHANGED << queue, hist >>
         [] s.op = "poke" ->
              /\ worker' = [worker EXCEPT ![t] = [next EXCEPT !.nonstr = TRUE]]
              /\ UNCHANGED << queue, hist >>
         [] s.op = "print" ->
              /\ worker' = [worker EXCEPT ![t] = next]
              /\ Put(t, << Ev("stdout", s.arg, "") >>)
         [] s.op = "display" ->
              /\ worker' = [worker EXCEPT ![t] = next]
              /\ Put(t, << Ev("display_data", s.arg, "") >>)
         [] s.op = "raise" ->
              /\ worker' = [worker EXCEPT ![t].pc = "except"]
              /\ UNCHANGED << queue, hist >>
         [] s.op = "exit" ->
              /\ worker' = [worker EXCEPT ![t].pc = "finally"]
              /\ UNCHANGED << queue, hist >>
         [] s.op = "loop" ->
              /\ FALSE
              /\ UNCHANGED << worker, queue, hist >>
    /\ UNCHANGED << coordVars, listenerVars, watcherVars, result_dict >>

\* exec returned: status=completed.
WCompleted(t) ==
    /\ worker[t].pc = "exec"
    /\ worker[t].ip > Len(CellText[task[t].cell])
    /\ Put(t, << Status("completed") >>)
    /\ worker' = [worker EXCEPT ![t].pc = "select"]
    /\ UNCHANGED << coordVars, listenerVars, watcherVars, result_dict >>

\* explicit_vars after the important variables were added to it.
ExplicitOf(t) ==
    explicit_vars(task[t].cell)
      \cup {v \in important_vars :
              v \in DOMAIN worker[t].eg /\ v \notin worker[t].initial}

\* vars_to_transfer = new_or_modified_keys | potentially_modified
vars_to_transfer(t) ==
    ((DOMAIN worker[t].eg) \ worker[t].initial)
      \cup (worker[t].initial \ RunnerInternal)

\* A faulty selection that gives up on every key when the trial of one
\* key fails.  With it in place of SelectedKeys,
\* UnserializableSkippedRestMerged fails.
SelectedKeysAllOrNothing(t) ==
    LET eg == worker[t].eg
        cand == {k \in (ExplicitOf(t) \cap DOMAIN eg)
                         \cup vars_to_transfer(t) :
                   /\ k \notin RunnerInternal
                   /\ (k \in ExplicitOf(t)
                       \/ (k \notin DunderNames
                           /\ ~is_module_or_unpicklable(eg[k])))} IN
    IF \A k \in cand : IsSimple(eg[k]) \/ Dumps(eg[k]) THEN cand ELSE {}

\* The keys the two selection loops put into serializable_globals.
SelectedKeys(t) ==
    LET eg == worker[t].eg
        ex == ExplicitOf(t) IN
    {k \in ex \cap DOMAIN eg :
        k \notin RunnerInternal /\ (IsSimple(eg[k]) \/ Dumps(eg[k]))}
    \cup
    {k \in vars_to_transfer(t) :
        /\ k \notin ex /\ k \notin DunderNames /\ k \notin RunnerInternal
        /\ ~is_module_or_unpicklable(eg[k])
        /\ (IsSimple(eg[k]) \/ Dumps(eg[k]))}

\* The keys whose serialization trial fails: each gets a warning event.
WarnedKeys(t) ==
    LET eg == worker[t].eg
        ex == ExplicitOf(t) IN
    {k \in ex \cap DOMAIN eg :
        k \notin RunnerInternal /\ ~IsSimple(eg[k]) /\ ~Dumps(eg[k])}
    \cup
    {k \in vars_to_transfer(t) :
        /\ k \notin ex /\ k \notin DunderNames /\ k \notin RunnerInternal
        /\ ~is_module_or_unpicklable(eg[k])
        /\ ~IsSimple(eg[k]) /\ ~Dumps(eg[k])}

\* The keys skipped as module objects (no event of their own).
ModuleKeys(t) ==
    {k \in vars_to_transfer(t) :
        /\ k \notin ExplicitOf(t) /\ k \notin DunderNames
        /\ k \notin RunnerInternal
        /\ is_module_or_unpicklable(worker[t].eg[k])}

\* The variable selection after exec: the important variables, the debug
\* line (which raises on a key that is no string), the two loops.
WSelect(t) ==
    /\ worker[t].pc = "select"
    /\ LET w == worker[t]
           imp == {v \in important_vars :
                     v \in DOMAIN w.eg /\ v \notin w.initial}
           evImp == EventsFor(imp, "stderr", "Adding important variable") IN
       IF w.nonstr
       THEN /\ Put(t, evImp)
            /\ worker' = [worker EXCEPT ![t].pc = "except"]
       ELSE /\ Put(t, evImp
                      \o << Ev("stderr", "New variables", "") >>
                      \o EventsFor(SelectedKeys(t) \cap ExplicitOf(t),
                                   "stderr", "Including variable")
                      \o EventsFor(WarnedKeys(t), "stderr",
                                   "Cannot serialize variable"))
            /\ worker' = [worker EXCEPT ![t] =
                   [w EXCEPT !.pc = "write",
                             !.sg = Restrict(w.eg, SelectedKeys(t)),
                             !.skipped = WarnedKeys(t) \cup ModuleKeys(t)]]
    /\ UNCHANGED << coordVars, listenerVars, watcherVars, result_dict >>

\* result_dict[key] = value, for a key of serializable_globals not yet
\* written (the dict's iteration order is not fixed).
WWrite(t) ==
    /\ worker[t].pc = "write"
    /\ \E k \in (DOMAIN worker[t].sg) \ worker[t].success :
         /\ result_dict' = [result_dict EXCEPT ![t] =
                               Bind(@, k, worker[t].sg[k])]
         /\ worker' = [worker EXCEPT ![t].success = @ \cup {k}]
    /\ UNCHANGED << coordVars, listenerVars, watcherVars, queue, hist >>

\* A faulty worker that writes the sentinel as soon as the write loop has
\* begun, and leaves the loop.  With it in place of WSentinel,
\* SentinelAfterValues fails.
WSentinelFirst(t) ==
    /\ worker[t].pc = "write"
    /\ result_dict' = [result_dict EXCEPT ![t] =
                          Bind(@, "__transfer_complete__", Simple(1))]
    /\ Put(t, << Ev("stdout", "variables returned", "") >>)
    /\ worker' = [worker EXCEPT ![t].pc = "finally"]
    /\ UNCHANGED << coordVars, listenerVars, watcherVars >>

\* Every key written: the sentinel and the closing messages.
WSentinel(t) ==
    /\ worker[t].pc = "write"
    /\ (DOMAIN worker[t].sg) \subseteq worker[t].success
    /\ LET w == worker[t]
           skippedEv == IF w.skipped # {}
                        THEN << Ev("stderr", "Skipped variables", "") >>
                        ELSE << >> IN
       IF w.success # {}
       THEN /\ result_dict' = [result_dict EXCEPT ![t] =
                                  Bind(@, "__transfer_complete__", Simple(1))]
            /\ Put(t, << Ev("stdout", "variables returned", ""),
                         Ev("stdout", "Returned variables", "") >>
                      \o skippedEv)
       ELSE /\ Put(t, << Ev("stderr", "No variables", "") >> \o skippedEv)
            /\ UNCHANGED result_dict
    /\ worker' = [worker EXCEPT ![t].pc = "finally"]
    /\ UNCHANGED << coordVars, listenerVars, watcherVars >>

\* A faulty except clause that closes the stream itself, as the handler of
\* the deserialization failure does, although the finally clause follows.
\* With it in place of WExcept, FinishedOnceAndLast fails.
WExceptFinishes(t) ==
    /\ worker[t].pc = "except"
    /\ Put(t, << Ev("stderr", "Traceback", ""), Status("error"),
                 Status("finished_processing") >>)
    /\ worker' = [worker EXCEPT ![t].pc = "finally"]
    /\ UNCHANGED << coordVars, listenerVars, watcherVars, result_dict >>

\* A faulty except clause that goes on to the variable selection after
\* the traceback.  With it in place of WExcept, FaultWritesNothing fails.
WExceptThenSelects(t) ==
    /\ worker[t].pc = "except"
    /\ Put(t, << Ev("stderr", "Traceback", ""), Status("error") >>)
    /\ worker' = [worker EXCEPT ![t].pc = "select"]
    /\ UNCHANGED << coordVars, listenerVars, watcherVars, result_dict >>

\* except Exception: the traceback and status=error.
WExcept(t) ==
    /\ worker[t].pc = "except"
    /\ Put(t, << Ev("stderr", "Traceback", ""), Status("error") >>)
    /\ worker' = [worker EXCEPT ![t].pc = "finally"]
    /\ UNCHANGED << coordVars, listenerVars, watcherVars, result_dict >>

\* finally: status=finished_processing.
WFinally(t) ==
    /\ worker[t].pc = "finally"
    /\ Put(t, << Status("finished_processing") >>)
    /\ worker' = [worker EXCEPT ![t].pc = "returned"]
    /\ UNCHANGED << coordVars, listenerVars, watcherVars, result_dict >>

\* The function has returned (or SystemExit left it): the process exits.
WExit(t) ==
    /\ worker[t].pc = "returned"
    /\ worker' = [worker EXCEPT ![t].pc = "exited"]
    /\ UNCHANGED << coordVars, listenerVars, watcherVars, result_dict,
                    queue, hist >>

\* The worker process is killed from outside (SIGKILL, the OOM killer) or
\* crashes in native code: it is gone without another event.
WCrash(t) ==
    /\ is_alive(t)
    /\ worker' = [worker EXCEPT ![t].pc = "killed"]
    /\ UNCHANGED << coordVars, listenerVars, watcherVars, result_dict,
                    queue, hist >>

Worker(t) ==
    \/ WInit(t) \/ WExec(t) \/ WCompleted(t) \/ WSelect(t) \/ WWrite(t)
    \/ WSentinel(t) \/ WExcept(t) \/ WFinally(t) \/ WExit(t)

\* ---------------------------------------------------------------- listener
NoListener == [pc |-> "none", final_status |-> "Unknown",
               process_finished |-> FALSE]

\* listener.is_alive()
listener_alive(t) == listener[t].pc \notin {"none", "dead"}

\* A message on the session's iopub socket, or a local print or display
\* (parent 0); src is the task_id of the event it was made from.
Msg(kind, name, content, parent, src) ==
    [msg_type |-> kind, name |-> name, content |-> content,
     parent |-> parent, src |-> src]

\* A faulty listener that asks the kernel for its parent when it sends:
\* the header of the request being served then (the latest submission).
\* With it in place of SendParent, OwnParentHeader fails.
SendParentCurrent(t) == task_counter

\* The parent the listener of task t passes to session.send.
SendParent(t) == task[t].parent_header

\* A faulty channel that hands out its newest message first.  With it in
\* place of Get, ForwardedInOrder fails.
GetNewest(q) == [item |-> q[Len(q)], rest |-> SubSeq(q, 1, Len(q) - 1)]

\* output_queue.get(timeout=timeout) on a channel q that is not empty: the
\* oldest message, and what stays on the channel.
Get(q) == [item |-> Head(q), rest |-> Tail(q)]

\* display(HTML(..), display_id=status_display_id, update=True)
Display(t, text, who) ==
    indicator' = [indicator EXCEPT ![t] = [text |-> text, by |-> who]]

\* while not stop_event.is_set(): where the listener goes on after a step
\* of its loop, tested with the value stop holds at the end of that step.
LoopOr(stop) == IF stop THEN "final" ELSE "get"

\* output_listener's first lines: without a kernel, a session and an iopub
\* socket it prints an error and returns; with them it enters its loop.
LStart(t) ==
    /\ listener[t].pc = "start"
    /\ listener' = [listener EXCEPT ![t].pc =
                       IF kernel THEN LoopOr(stop_event[t]) ELSE "dead"]
    /\ UNCHANGED << coordVars, watcherVars, worker, queue, hist, stop_event,
                    indicator, sink, result_dict >>

\* The listener's local state after a status message.
AfterStatus(l, content) ==
    CASE content = "completed" -> [l EXCEPT !.final_status = "completed"]
      [] content = "error" -> [l EXCEPT !.final_status = "error"]
      [] content = "finished_processing" ->
           [l EXCEPT !.process_finished = TRUE,
                     !.final_status = IF @ = "Unknown" THEN "completed" ELSE @]
      [] OTHER -> l

\* message = output_queue.get(timeout=..) returned a message: forward it.
LGet(t) ==
    /\ listener[t].pc = "get"
    /\ queue[t] # << >>
    /\ LET m == Get(queue[t]).item
           l == [listener[t] EXCEPT !.pc = LoopOr(stop_event[t])]
           h == SendParent(t) IN
       /\ queue' = [queue EXCEPT ![t] = Get(@).rest]
       /\ IF task[t].parent_header = 0
          THEN \* no parent header: print or display locally, skip statuses
               /\ sink' = [sink EXCEPT ![0] =
                    CASE m.type \in {"stdout", "stderr"} ->
                           Append(@, Msg("print", m.type, m.content, 0, t))
                      [] m.type = "display_data" ->
                           IF m.content = "payload"
                           THEN Append(@, Msg("display", "", m.content, 0, t))
                           ELSE Append(@, Msg("print", "stderr",
                                              "Display Error - No Header",
                                              0, t))
                      [] OTHER -> @]
               /\ listener' = [listener EXCEPT ![t] = l]
               /\ UNCHANGED stop_event
          ELSE CASE m.type \in {"stdout", "stderr"} ->
                      /\ sink' = [sink EXCEPT ![h] =
                            Append(@, Msg("stream", m.type, m.content, h, t))]
                      /\ listener' = [listener EXCEPT ![t] = l]
                      /\ UNCHANGED stop_event
                 [] m.type = "display_data" /\ m.content = "payload" ->
                      /\ sink' = [sink EXCEPT ![h] =
                            Append(@, Msg("display_data", "", m.content,
                                          h, t))]
                      /\ listener' = [listener EXCEPT ![t] = l]
                      /\ UNCHANGED stop_event
                 [] m.type = "display_data" /\ m.content # "payload" ->
                      \* the handler names traceback, which the module never
                      \* imports: NameError, caught by the outer handler
                      /\ listener' = [listener EXCEPT ![t] =
                            [@ EXCEPT !.pc = "final",
                                      !.final_status = "listener_error"]]
                      /\ stop_event' = [stop_event EXCEPT ![t] = TRUE]
                      /\ UNCHANGED sink
                 [] OTHER ->
                      /\ listener' = [listener EXCEPT ![t] =
                                         AfterStatus(l, m.content)]
                      /\ UNCHANGED << sink, stop_event >>
    /\ UNCHANGED << coordVars, watcherVars, worker, hist, indicator,
                    result_dict >>

\* except queue.Empty: stop once the worker has finished; otherwise a
\* Running tick is due when update_interval has passed.
LEmpty(t) ==
    /\ listener[t].pc = "get"
    /\ queue[t] = << >>
    /\ IF listener[t].process_finished
       THEN /\ stop_event' = [stop_event EXCEPT ![t] = TRUE]
            /\ listener' = [listener EXCEPT ![t].pc = "final"]
       ELSE /\ UNCHANGED stop_event
            /\ \E due \in BOOLEAN :
                 listener' = [listener EXCEPT ![t].pc =
                    IF ~stop_event[t] /\ due THEN "tick"
                    ELSE LoopOr(stop_event[t])]
    /\ UNCHANGED << coordVars, watcherVars, worker, queue, hist, indicator,
                    sink, result_dict >>

\* The periodic update of the status indicator.
LTick(t) ==
    /\ listener[t].pc = "tick"
    /\ Display(t, "Running", "listener")
    /\ listener' = [listener EXCEPT ![t].pc = LoopOr(stop_event[t])]
    /\ UNCHANGED << coordVars, watcherVars, worker, queue, hist, stop_event,
                    sink, result_dict >>

\* After the loop: the final update of the status indicator.
LFinal(t) ==
    /\ listener[t].pc = "final"
    /\ Display(t, listener[t].final_status, "listener")
    /\ listener' = [listener EXCEPT ![t].pc = "dead"]
    /\ UNCHANGED << coordVars, watcherVars, worker, queue, hist, stop_event,
                    sink, result_dict >>

Listener(t) ==
    \/ LStart(t) \/ LGet(t) \/ LEmpty(t) \/ LTick(t) \/ LFinal(t)

\* ----------------------------------------------------------------- watcher
NoWatcher == [pc |-> "none", tv |-> EmptyMap, why |-> "none"]

\* _handle_variable_transfer's first lines.
VStart(t) ==
    /\ watcher[t].pc = "start"
    /\ watcher' = [watcher EXCEPT ![t].pc =
                      IF t \in background_tasks THEN "poll" ELSE "dead"]
    /\ UNCHANGED << coordVars, listenerVars, worker, queue, hist,
                    result_dict, transfer_complete >>

\* The keys the watcher reads out of result_dict.
Transferable(d) == Restrict(d, (DOMAIN d) \ DunderNames)

\* The poll loop ends (the sentinel is there, the worker is not alive, or
\* max_wait has elapsed) and the watcher reads result_dict; an empty
\* result sets transfer_complete and ends the thread.
VRead(t) ==
    /\ watcher[t].pc = "poll"
    /\ \E why \in {"sentinel", "exited", "ceiling"} :
         /\ why = "sentinel" =>
               is_alive(t) /\ "__transfer_complete__" \in DOMAIN result_dict[t]
         /\ why = "exited" => ~is_alive(t)
         /\ why = "ceiling" =>
               is_alive(t)
               /\ "__transfer_complete__" \notin DOMAIN result_dict[t]
         /\ LET tv == Transferable(result_dict[t]) IN
            IF tv = EmptyMap
            THEN /\ transfer_complete' =
                        [transfer_complete EXCEPT ![t] = TRUE]
                 /\ watcher' = [watcher EXCEPT ![t] =
                        [pc |-> "dead", tv |-> tv, why |-> why]]
            ELSE /\ UNCHANGED transfer_complete
                 /\ watcher' = [watcher EXCEPT ![t] =
                        [pc |-> "merge", tv |-> tv, why |-> why]]
    /\ UNCHANGED << coordVars, listenerVars, worker, queue, hist,
                    result_dict >>

\* A faulty test of the destination that sends every merge to the caller's
\* globals.  With it in place of MergesIntoGlobals, PartitionMergeOnly
\* fails.
MergesIntoGlobalsAlways(t) == TRUE

\* if namespace: ... else: the merge goes to the caller's globals when the
\* task was submitted without a partition name.
MergesIntoGlobals(t) == task[t].namespace = "None"

\* The merge of transferred_vars into the caller's globals, followed by
\* transfer_complete.set(); with a partition name, the test whether the
\* partition exists.
VMerge(t) ==
    /\ watcher[t].pc = "merge"
    /\ IF MergesIntoGlobals(t)
       THEN /\ user_ns' = Update(user_ns, watcher[t].tv)
            /\ transfer_complete' = [transfer_complete EXCEPT ![t] = TRUE]
            /\ watcher' = [watcher EXCEPT ![t].pc = "dead"]
       ELSE /\ watcher' = [watcher EXCEPT ![t].pc =
                  IF task[t].namespace \in DOMAIN namespaces
                  THEN "nsupdate" ELSE "nscreate"]
            /\ UNCHANGED << user_ns, transfer_complete >>
    /\ UNCHANGED << kernel, namespaces, background_tasks,
                    cell_hash_to_task_id, task_counter, coord, task, stopped,
                    listenerVars, worker, queue, hist, result_dict >>

\* self._namespaces[namespace] = {}
VNsCreate(t) ==
    /\ watcher[t].pc = "nscreate"
    /\ namespaces' = Bind(namespaces, task[t].namespace, EmptyMap)
    /\ watcher' = [watcher EXCEPT ![t].pc = "nsupdate"]
    /\ UNCHANGED << kernel, user_ns, background_tasks, cell_hash_to_task_id,
                    task_counter, coord, task, stopped, listenerVars, worker,
                    queue, hist, result_dict, transfer_complete >>

\* self._namespaces[namespace].update(transferred_vars); the event is not
\* set on this path.
VNsUpdate(t) ==
    /\ watcher[t].pc = "nsupdate"
    /\ namespaces' = Bind(namespaces, task[t].namespace,
                          Update(namespaces[task[t].namespace],
                                 watcher[t].tv))
    /\ watcher' = [watcher EXCEPT ![t].pc = "dead"]
    /\ UNCHANGED << kernel, user_ns, background_tasks, cell_hash_to_task_id,
                    task_counter, coord, task, stopped, listenerVars, worker,
                    queue, hist, result_dict, transfer_complete >>

Watcher(t) ==
    \/ VStart(t) \/ VRead(t) \/ VMerge(t) \/ VNsCreate(t) \/ VNsUpdate(t)

\* ------------------------------------------------------------- coordinator
Idle == [pc |-> "idle", cell |-> "", namespace |-> "None", parent_header |-> 0,
         stopping |-> 0, unloading |-> FALSE,
         loop |-> "none", todo |-> {}, len |-> 0, acc |-> EmptyMap,
         skipped |-> {}]

NoTask == [cell |-> "", cell_hash |-> 0, namespace |-> "None",
           parent_header |-> 0,
           serialized_context |-> [ok |-> FALSE, ns |-> EmptyMap],
           warned |-> {}]

\* The names of the caller's globals that the snapshot loop skips unseen.
Reserved(k) == k \in UnderscoreNames \/ k \in ipython_builtins_to_skip

\* The globals the snapshot loop prints a "Skipping non-serializable
\* global variable" warning for: not reserved, and dumps raises.
snapshot_warnings ==
    {k \in DOMAIN user_ns : ~Reserved(k) /\ ~Dumps(user_ns[k])}

\* A faulty snapshot without the per-variable trial: one global that does
\* not dump leaves the snapshot without any global.  With it in place of
\* serializable_ns, SnapshotSkipsUnserializable fails.
serializable_ns_all_or_nothing(namespace) ==
    IF \A k \in DOMAIN user_ns : Reserved(k) \/ Dumps(user_ns[k])
    THEN Restrict(user_ns, {k \in DOMAIN user_ns : ~Reserved(k)})
    ELSE EmptyMap

\* A faulty snapshot that lays the partition's bindings over the caller's
\* globals instead of under them.  With it in place of serializable_ns,
\* SnapshotGlobalsOverPartition fails.
serializable_ns_partition_last(namespace) ==
    LET seed == IF namespace # "None" /\ namespace \in DOMAIN namespaces
                THEN Restrict(namespaces[namespace],
                              (DOMAIN namespaces[namespace])
                                 \ ipython_builtins_to_skip)
                ELSE EmptyMap
        globals == Restrict(user_ns,
                            {k \in DOMAIN user_ns :
                                ~(k \in UnderscoreNames
                                  \/ k \in ipython_builtins_to_skip)
                                /\ Dumps(user_ns[k])}) IN
    Update(globals, seed)

\* serializable_ns: the partition's bindings first (when the partition is
\* known), then every global that is not reserved and that dumps.
serializable_ns(namespace) ==
    LET seed == IF namespace # "None" /\ namespace \in DOMAIN namespaces
                THEN Restrict(namespaces[namespace],
                              (DOMAIN namespaces[namespace])
                                 \ ipython_builtins_to_skip)
                ELSE EmptyMap
        globals == Restrict(user_ns,
                            {k \in DOMAIN user_ns :
                                ~Reserved(k) /\ Dumps(user_ns[k])}) IN
    Update(seed, globals)

\* serialized_context = cloudpickle.dumps(serializable_ns), None on failure.
serialized_context(namespace) ==
    LET sns == serializable_ns(namespace) IN
    [ok |-> \A k \in DOMAIN sns : Dumps(sns[k]), ns |-> sns]

\* A teardown that leaves the task in the registry and in the digest
\* index.  With it in place of Unregister, UnregisteredBeforeStopped
\* fails.
UnregisterNever(tid) ==
    UNCHANGED << background_tasks, cell_hash_to_task_id >>

\* The first lines of _stop_task: the task leaves the registry and the
\* digest index.
Unregister(tid) ==
    /\ background_tasks' = background_tasks \ {tid}
    /\ cell_hash_to_task_id' =
          Restrict(cell_hash_to_task_id,
                   {h \in DOMAIN cell_hash_to_task_id :
                       cell_hash_to_task_id[h] # tid})

\* A faulty lookup that never finds a previous task to stop.  With it in
\* place of PreviousAlive, OneWorkerPerFingerprint fails.
PreviousAliveForgotten(c) == FALSE

\* A faulty lookup that does not ask whether the previous process is
\* alive.  With it in place of PreviousAlive, DeadPreviousOnlyDropped
\* fails.
PreviousAliveOrNot(c) ==
    /\ cell_content_hash(c) \in DOMAIN cell_hash_to_task_id
    /\ cell_hash_to_task_id[cell_content_hash(c)] \in background_tasks

\* The previous task a submission of cell c has to stop: the task the
\* digest maps to, when it is registered and its process is alive.
PreviousAlive(c) ==
    /\ cell_content_hash(c) \in DOMAIN cell_hash_to_task_id
    /\ cell_hash_to_task_id[cell_content_hash(c)] \in background_tasks
    /\ is_alive(cell_hash_to_task_id[cell_content_hash(c)])

\* %%background up to the start of the new task: the parent header, the
\* digest, the previous task of the same digest (stopped when its process
\* is alive, dropped when it is not).
Submit(c, ns, hdr) ==
    /\ coord.pc = "idle"
    /\ task_counter < MaxTasks
    /\ hdr # 0 => kernel
    /\ LET h == cell_content_hash(c)
           known == h \in DOMAIN cell_hash_to_task_id
           prev == IF known THEN cell_hash_to_task_id[h] ELSE 0
           call == [Idle EXCEPT !.cell = c, !.namespace = ns,
                                !.parent_header = hdr] IN
       IF PreviousAlive(c)
       THEN /\ Unregister(prev)
            /\ coord' = [call EXCEPT !.pc = "stop_set", !.stopping = prev]
       ELSE /\ IF known /\ prev \in background_tasks
               THEN /\ background_tasks' = background_tasks \ {prev}
                    /\ cell_hash_to_task_id' =
                          Restrict(cell_hash_to_task_id,
                                   (DOMAIN cell_hash_to_task_id) \ {h})
               ELSE UNCHANGED << background_tasks, cell_hash_to_task_id >>
            /\ coord' = [call EXCEPT !.pc = "spawn"]
    /\ UNCHANGED << kernel, user_ns, namespaces, task_counter, task, stopped,
                    listenerVars, watcherVars, worker, queue, hist,
                    result_dict >>

\* _stop_task: if listener.is_alive(): stop_event.set()
StopSet ==
    /\ coord.pc = "stop_set"
    /\ stop_event' = [stop_event EXCEPT ![coord.stopping] =
                         @ \/ listener_alive(coord.stopping)]
    /\ coord' = [coord EXCEPT !.pc = "stop_term"]
    /\ UNCHANGED << kernel, user_ns, namespaces, background_tasks,
                    cell_hash_to_task_id, task_counter, task, stopped,
                    watcherVars, worker, queue, hist, listener, indicator,
                    sink, result_dict >>

\* _stop_task: process.terminate(); process.join(timeout=0.5).  The worker
\* exits on SIGTERM, or (user code that blocks or handles the signal) is
\* still alive when the join times out.
StopTerminate ==
    /\ coord.pc = "stop_term"
    /\ \E dies \in BOOLEAN :
         IF is_alive(coord.stopping) /\ dies
         THEN /\ worker' = [worker EXCEPT ![coord.stopping].pc = "killed"]
              /\ coord' = [coord EXCEPT !.pc = "stop_join"]
         ELSE /\ UNCHANGED worker
              /\ coord' = [coord EXCEPT !.pc =
                    IF is_alive(coord.stopping) THEN "stop_kill"
                    ELSE "stop_join"]
    /\ UNCHANGED << kernel, user_ns, namespaces, background_tasks,
                    cell_hash_to_task_id, task_counter, task, stopped,
                    listenerVars, watcherVars, queue, hist, result_dict >>

\* _stop_task: if process.is_alive(): process.kill(); process.join(0.2).
\* SIGKILL cannot be handled: the process is gone when the join returns.
StopKill ==
    /\ coord.pc = "stop_kill"
    /\ worker' = [worker EXCEPT ![coord.stopping].pc =
                     IF is_alive(coord.stopping) THEN "killed" ELSE @]
    /\ coord' = [coord EXCEPT !.pc = "stop_join"]
    /\ UNCHANGED << kernel, user_ns, namespaces, background_tasks,
                    cell_hash_to_task_id, task_counter, task, stopped,
                    listenerVars, watcherVars, queue, hist, result_dict >>

\* A join on the listener without its timeout: _stop_task goes on only
\* when the listener thread has ended.  With it in place of StopJoin,
\* StopTaskReturns fails.
StopJoinUnbounded ==
    /\ coord.pc = "stop_join"
    /\ ~listener_alive(coord.stopping)
    /\ coord' = [coord EXCEPT !.pc = "stop_disp"]
    /\ UNCHANGED << kernel, user_ns, namespaces, background_tasks,
                    cell_hash_to_task_id, task_counter, task, stopped,
                    listenerVars, watcherVars, worker, queue, hist,
                    result_dict >>

\* _stop_task: if listener.is_alive(): listener.join(timeout=0.5).  The
\* join returns when the listener has ended or when the timeout elapses.
StopJoin ==
    /\ coord.pc = "stop_join"
    /\ coord' = [coord EXCEPT !.pc = "stop_disp"]
    /\ UNCHANGED << kernel, user_ns, namespaces, background_tasks,
                    cell_hash_to_task_id, task_counter, task, stopped,
                    listenerVars, watcherVars, worker, queue, hist,
                    result_dict >>

\* _stop_task: the "Task stopped (superseded)." update, and the return to
\* the caller: background(), which goes on to start the new task, or the
\* loop of _unload_tasks.
StopDisplay ==
    /\ coord.pc = "stop_disp"
    /\ Display(coord.stopping, "Stopped", "coordinator")
    /\ stopped' = stopped \cup {coord.stopping}
    /\ coord' = [coord EXCEPT !.pc = IF coord.unloading THEN "unload_next"
                                     ELSE "spawn",
                              !.stopping = 0]
    /\ UNCHANGED << kernel, user_ns, namespaces, background_tasks,
                    cell_hash_to_task_id, task_counter, task, watcherVars,
                    worker, queue, hist, listener, stop_event, sink,
                    result_dict >>

\* _stop_task: terminate(), kill() or a join raises (an OSError of
\* os.kill, say); the except clause prints the error and _stop_task
\* returns to its caller without having reached the display update.
StopRaise ==
    /\ coord.pc \in {"stop_term", "stop_kill", "stop_join"}
    /\ stopped' = stopped \cup {coord.stopping}
    /\ coord' = [coord EXCEPT !.pc = IF coord.unloading THEN "unload_next"
                                     ELSE "spawn",
                              !.stopping = 0]
    /\ UNCHANGED << kernel, user_ns, namespaces, background_tasks,
                    cell_hash_to_task_id, task_counter, task, watcherVars,
                    listenerVars, worker, queue, hist, result_dict >>

\* background(): the new task id, the snapshot, the "Starting" display and
\* listener.start().
Spawn ==
    /\ coord.pc = "spawn"
    /\ LET tid == task_counter + 1 IN
       /\ task_counter' = tid
       /\ task' = [task EXCEPT ![tid] =
             [cell |-> coord.cell,
              cell_hash |-> cell_content_hash(coord.cell),
              namespace |-> coord.namespace,
              parent_header |-> coord.parent_header,
              serialized_context |-> serialized_context(coord.namespace),
              warned |-> snapshot_warnings]]
       /\ Display(tid, "Starting", "coordinator")
       /\ listener' = [listener EXCEPT ![tid].pc = "start"]
    /\ coord' = [coord EXCEPT !.pc = "start_worker"]
    /\ UNCHANGED << kernel, user_ns, namespaces, background_tasks,
                    cell_hash_to_task_id, stopped, watcherVars, worker, queue,
                    hist, stop_event, sink, result_dict >>

\* The snapshot of background() step by step, as it runs next to the
\* watcher threads: the table the loop at hand iterates.
SnapTable ==
    IF coord.loop = "partition" THEN namespaces[coord.namespace] ELSE user_ns

\* The start of a loop over table: the iterator notes the table's size.
SnapLoop(c, loop, table) ==
    [c EXCEPT !.pc = "snap_iter", !.loop = loop, !.todo = DOMAIN table,
              !.len = Cardinality(DOMAIN table)]

\* background(): the new task id, and the start of the first loop: over
\* the partition when it is known, over the caller's globals otherwise.
SnapBegin ==
    /\ coord.pc = "spawn"
    /\ task_counter' = task_counter + 1
    /\ coord' =
          IF coord.namespace # "None" /\ coord.namespace \in DOMAIN namespaces
          THEN SnapLoop(coord, "partition", namespaces[coord.namespace])
          ELSE SnapLoop(coord, "globals", user_ns)
    /\ UNCHANGED << kernel, user_ns, namespaces, background_tasks,
                    cell_hash_to_task_id, task, stopped, listenerVars,
                    watcherVars, worker, queue, hist, result_dict >>

\* One step of 'for k, v in table.items()': the iterator raises
\* RuntimeError when the table's size is no longer the one it noted;
\* otherwise the next name is taken with its present value, or the loop
\* ends and the next one (or the serialization) follows.
SnapStep ==
    /\ coord.pc = "snap_iter"
    /\ IF Cardinality(DOMAIN SnapTable) # coord.len
       THEN coord' = [coord EXCEPT !.pc = "raised"]
       ELSE IF coord.todo = {}
       THEN coord' = IF coord.loop = "partition"
                     THEN SnapLoop(coord, "globals", user_ns)
                     ELSE [coord EXCEPT !.pc = "snap_end"]
       ELSE \E k \in coord.todo \cap DOMAIN SnapTable :
              LET v == SnapTable[k]
                  rest == [coord EXCEPT !.todo = @ \ {k}] IN
              coord' =
                 IF coord.loop = "partition"
                 THEN IF k \in ipython_builtins_to_skip THEN rest
                      ELSE [rest EXCEPT !.acc = Bind(@, k, v)]
                 ELSE IF Reserved(k) THEN rest
                      ELSE IF Dumps(v) THEN [rest EXCEPT !.acc = Bind(@, k, v)]
                      ELSE [rest EXCEPT !.skipped = @ \cup {k}]
    /\ UNCHANGED << kernel, user_ns, namespaces, background_tasks,
                    cell_hash_to_task_id, task_counter, task, stopped,
                    listenerVars, watcherVars, worker, queue, hist,
                    result_dict >>

\* The RuntimeError leaves background(): the submission has failed, no
\* task is started.
SnapRaise ==
    /\ coord.pc = "raised"
    /\ coord' = Idle
    /\ UNCHANGED << kernel, user_ns, namespaces, background_tasks,
                    cell_hash_to_task_id, task_counter, task, stopped,
                    listenerVars, watcherVars, worker, queue, hist,
                    result_dict >>

\* After the loops: cloudpickle.dumps(serializable_ns), the "Starting"
\* display and listener.start().
SnapEnd ==
    /\ coord.pc = "snap_end"
    /\ LET tid == task_counter IN
       /\ task' = [task EXCEPT ![tid] =
             [cell |-> coord.cell,
              cell_hash |-> cell_content_hash(coord.cell),
              namespace |-> coord.namespace,
              parent_header |-> coord.parent_header,
              serialized_context |->
                 [ok |-> \A k \in DOMAIN coord.acc : Dumps(coord.acc[k]),
                  ns |-> coord.acc],
              warned |-> coord.skipped]]
       /\ Display(tid, "Starting", "coordinator")
       /\ listener' = [listener EXCEPT ![tid].pc = "start"]
    /\ coord' = [coord EXCEPT !.pc = "start_worker", !.loop = "none",
                              !.todo = {}, !.len = 0, !.acc = EmptyMap,
                              !.skipped = {}]
    /\ UNCHANGED << kernel, user_ns, namespaces, background_tasks,
                    cell_hash_to_task_id, task_counter, stopped, watcherVars,
                    worker, queue, hist, stop_event, sink, result_dict >>

\* The snapshot of background() as a sequence of steps.
SnapTask ==
    \/ SnapBegin \/ SnapStep \/ SnapRaise \/ SnapEnd

\* background(): process.start(), the registration of the task under its
\* id and its digest, and the start of the watcher thread.
StartWorker ==
    /\ coord.pc = "start_worker"
    /\ LET tid == task_counter IN
       /\ worker' = [worker EXCEPT ![tid].pc = "init"]
       /\ background_tasks' = background_tasks \cup {tid}
       /\ cell_hash_to_task_id' =
             Bind(cell_hash_to_task_id, task[tid].cell_hash, tid)
       /\ watcher' = [watcher EXCEPT ![tid].pc = "start"]
    /\ coord' = [coord EXCEPT !.pc = "wait"]
    /\ UNCHANGED << kernel, user_ns, namespaces, task_counter, task, stopped,
                    listenerVars, queue, hist, result_dict,
                    transfer_complete >>

\* A submission that joins the worker before it returns.  With it in
\* place of Return, SubmissionReturns fails.
ReturnWaitsForWorker ==
    /\ coord.pc = "wait"
    /\ ~is_alive(task_counter)
    /\ coord' = Idle
    /\ UNCHANGED << kernel, user_ns, namespaces, background_tasks,
                    cell_hash_to_task_id, task_counter, task, stopped,
                    listenerVars, watcherVars, worker, queue, hist,
                    result_dict >>

\* background(): time.sleep(0.2), the bounded wait on transfer_complete
\* when the cell mentions res, and the return.
Return ==
    /\ coord.pc = "wait"
    /\ coord' = Idle
    /\ UNCHANGED << kernel, user_ns, namespaces, background_tasks,
                    cell_hash_to_task_id, task_counter, task, stopped,
                    listenerVars, watcherVars, worker, queue, hist,
                    result_dict >>

\* unload_ipython_extension / __del__: _unload_tasks returns at once when
\* the registry is empty, and otherwise starts on the list of its keys.
UnloadBegin ==
    /\ coord.pc = "idle"
    /\ coord' = IF background_tasks = {}
                THEN [Idle EXCEPT !.pc = "detached"]
                ELSE [Idle EXCEPT !.pc = "unload_next", !.unloading = TRUE]
    /\ UNCHANGED << kernel, user_ns, namespaces, background_tasks,
                    cell_hash_to_task_id, task_counter, task, stopped,
                    listenerVars, watcherVars, worker, queue, hist,
                    result_dict >>

\* _unload_tasks: the call of _stop_task for the next key of the list (the
\* registry keeps the order of the task ids, and only the coordinator
\* removes from it), and after the last one the clearing of the digest
\* index and the return.
UnloadNext ==
    /\ coord.pc = "unload_next"
    /\ IF background_tasks # {}
       THEN LET tid == CHOOSE t \in background_tasks :
                          \A u \in background_tasks : t <= u IN
            /\ Unregister(tid)
            /\ coord' = [coord EXCEPT !.pc = "stop_set", !.stopping = tid]
       ELSE /\ cell_hash_to_task_id' = EmptyMap
            /\ coord' = [Idle EXCEPT !.pc = "detached"]
            /\ UNCHANGED background_tasks
    /\ UNCHANGED << kernel, user_ns, namespaces, task_counter, task, stopped,
                    listenerVars, watcherVars, worker, queue, hist,
                    result_dict >>

Unload == UnloadBegin \/ UnloadNext

\* ------------------------------------------------------------ the system
\* The state after BackgroundMagics.__init__, in a session with (k) or
\* without a kernel and with the caller's globals g.
InitWith(k, g) ==
    /\ kernel = k
    /\ user_ns = g
    /\ namespaces = EmptyMap
    /\ background_tasks = {}
    /\ cell_hash_to_task_id = EmptyMap
    /\ task_counter = 0
    /\ coord = Idle
    /\ task = [t \in Tasks |-> NoTask]
    /\ worker = [t \in Tasks |-> NoWorker]
    /\ queue = [t \in Tasks |-> << >>]
    /\ hist = [t \in Tasks |-> << >>]
    /\ listener = [t \in Tasks |-> NoListener]
    /\ stop_event = [t \in Tasks |-> FALSE]
    /\ indicator = [t \in Tasks |-> [text |-> "none", by |-> "none"]]
    /\ sink = [h \in 0..MaxTasks |-> << >>]
    /\ result_dict = [t \in Tasks |-> EmptyMap]
    /\ watcher = [t \in Tasks |-> NoWatcher]
    /\ transfer_complete = [t \in Tasks |-> FALSE]
    /\ stopped = {}

\* The steps of _stop_task after the task has left the registry.
StopTask ==
    \/ StopSet \/ StopTerminate \/ StopKill \/ StopJoin \/ StopDisplay

\* The steps of background() after the previous task has been dealt with.
StartTask ==
    \/ Spawn \/ StartWorker \/ Return

\* A submission of a cell of menu to a partition of names, with a parent
\* header when the kernel knows one (fresh: the request's own header), as
\* long as fewer than limit submissions were made.
SubmitFrom(menu, names, limit) ==
    \E c \in menu : \E ns \in names : \E hdr \in {0, task_counter + 1} :
       /\ task_counter < limit
       /\ Submit(c, ns, hdr)

\* The worker's steps on every path but the except clause.
WorkerReturns(t) ==
    \/ WInit(t) \/ WExec(t) \/ WCompleted(t) \/ WSelect(t) \/ WWrite(t)
    \/ WSentinel(t) \/ WFinally(t) \/ WExit(t)

\* Supersession: the coordinator and the worker processes.  The listener
\* and watcher threads write none of worker, background_tasks and
\* cell_hash_to_task_id, so they are left unscheduled here.
SuperInit == InitWith(FALSE, EmptyMap)

SuperNext ==
    \/ SubmitFrom({"out", "fault"}, {"None"}, MaxTasks)
    \/ StopTask
    \/ StartTask
    \/ \E t \in Tasks : Worker(t)

SuperSpec == SuperInit /\ [][SuperNext]_vars

StopInit == InitWith(TRUE, EmptyMap)

StopNext ==
    \/ SubmitFrom({"loop"}, {"None"}, MaxTasks)
    \/ StopTask
    \/ StartTask
    \/ \E t \in Tasks : WInit(t) \/ WExec(t)
    \/ \E t \in Tasks : Listener(t)

StopSpec == StopInit /\ [][StopNext]_vars

\* C2: once _stop_task has returned for a task, the last update applied
\* to the task's status indicator is "Task stopped (superseded)."
StoppedIndicatorStays ==
    \A t \in stopped : indicator[t].text = "Stopped"

\* One execution of run_code_in_background: the first submission of a
\* session, for every cell and for callers whose globals are empty, hold a
\* plain value, hold a value that cannot be dumped, or hold a value whose
\* blob does not load in the worker.
RunnerCallers ==
    {EmptyMap,
     [k \in {"x"} |-> Simple(1)],
     [k \in {"g"} |-> Unpicklable],
     [k \in {"h"} |-> NoLoad]}

RunnerInit == \E g \in RunnerCallers : InitWith(FALSE, g)

RunnerNext ==
    \/ task_counter = 0 /\ SubmitFrom(Cells, {"None"}, MaxTasks)
    \/ StartTask
    \/ \E t \in Tasks : Worker(t)

RunnerSpec == RunnerInit /\ [][RunnerNext]_vars

\* The positions in the channel's history of task t that hold status s.
StatusAt(t, s) == {i \in 1..Len(hist[t]) : hist[t][i] = Status(s)}

\* The cell leaves exec by SystemExit, which is neither a normal return
\* nor a fault the except clause handles.
CallsExit(c) == \E i \in 1..Len(CellText[c]) : CellText[c][i].op = "exit"

\* C5: in an execution of run_code_in_background that returns normally,
\* faults in the user source or faults in the variable selection, exactly
\* one terminal status event (completed or error) is enqueued before the
\* finished_processing event.
OneTerminalStatus ==
    \A t \in Tasks :
       (StatusAt(t, "finished_processing") # {} /\ ~CallsExit(task[t].cell))
          => Cardinality(StatusAt(t, "completed")
                           \cup StatusAt(t, "error")) = 1

\* C6: finished_processing is enqueued at most once and nothing is enqueued
\* after it; when run_code_in_background has returned it was enqueued, so
\* it is the last event of the task.
FinishedOnceAndLast ==
    \A t \in Tasks :
       /\ StatusAt(t, "finished_processing") \subseteq {Len(hist[t])}
       /\ worker[t].pc \in {"returned", "exited"} =>
             StatusAt(t, "finished_processing") = {Len(hist[t])}

\* A worker has returned through the except clause.
ReturnedAfterFault ==
    \E t \in Tasks :
       /\ worker[t].pc = "exited"
       /\ StatusAt(t, "error") # {}
       /\ \E i \in 1..Len(hist[t]) : hist[t][i].content = "Traceback"

\* One task and its listener: the first submission of a session with or
\* without a kernel, with or without a parent header.
DrainMenu == {"out", "baddisp", "fault", "loop"}

DrainInit == \E k \in BOOLEAN : InitWith(k, EmptyMap)

DrainNext ==
    \/ task_counter = 0 /\ SubmitFrom(DrainMenu, {"None"}, MaxTasks)
    \/ StartTask
    \/ \E t \in Tasks : Worker(t)
    \/ \E t \in Tasks : Listener(t)

DrainSpec == DrainInit /\ [][DrainNext]_vars

\* The same, with the scheduling the threads and processes get: a worker
\* that can take a step takes one, and so does a listener (a Running tick
\* is due once update_interval has passed).
FairDrainSpec ==
    /\ DrainInit
    /\ [][DrainNext]_vars
    /\ \A t \in Tasks : WF_vars(Worker(t)) /\ WF_vars(Listener(t))

\* The stdout, stderr and display events task t's worker has enqueued.
Enqueued(t) ==
    SelectSeq(hist[t],
              LAMBDA e : e.type \in {"stdout", "stderr", "display_data"})

\* What task t's listener has sent to the sink, or printed and displayed.
Forwarded(t) ==
    SelectSeq(sink[task[t].parent_header], LAMBDA m : m.src = t)

\* Message m is what the listener makes of event e.
Forwards(m, e) ==
    IF e.type = "display_data"
    THEN m.msg_type \in {"display_data", "display"}
         \/ m.content = "Display Error - No Header"
    ELSE m.msg_type \in {"stream", "print"}
         /\ m.name = e.type /\ m.content = e.content

\* C3: the listener of a task forwards the stdout, stderr and display
\* events in the order the worker enqueued them: what it has forwarded is,
\* message by message, a prefix of what the worker has enqueued.
ForwardedInOrder ==
    \A t \in Tasks :
       /\ Len(Forwarded(t)) <= Len(Enqueued(t))
       /\ \A i \in 1..Len(Forwarded(t)) :
             Forwards(Forwarded(t)[i], Enqueued(t)[i])

\* The listener has sent two stream messages and a display message of one
\* task to the session.
ForwardedThree ==
    \E t \in Tasks :
       /\ task[t].parent_header # 0
       /\ Len(Forwarded(t)) >= 3
       /\ Forwarded(t)[1].content = "a"
       /\ Forwarded(t)[2].content = "b"
       /\ Forwarded(t)[3].msg_type = "display_data"

\* The listener of task t has made its final update of the indicator.
FinalUpdateDone(t) ==
    /\ listener[t].pc = "dead"
    /\ indicator[t].by = "listener"
    /\ indicator[t].text \in {"completed", "error", "listener_error",
                              "Unknown"}

\* C7: once finished_processing has been enqueued for a task, its listener
\* eventually leaves its loop and makes its final update of the indicator.
FinishedLeadsToFinalUpdate ==
    \A t \in Tasks :
       (StatusAt(t, "finished_processing") # {}) ~> FinalUpdateDone(t)

\* Tasks of different source text side by side: the coordinator, the
\* workers and the listeners, in a session with a kernel.
RouteMenu == {"loop", "exit"}

RouteInit == InitWith(TRUE, EmptyMap)

RouteNext ==
    \/ SubmitFrom(RouteMenu, {"None"}, MaxTasks)
    \/ StopTask
    \/ StartTask
    \/ \E t \in Tasks : WInit(t) \/ WExec(t) \/ WFinally(t) \/ WExit(t)
    \/ \E t \in Tasks : Listener(t)

RouteSpec == RouteInit /\ [][RouteNext]_vars

\* C4: every message sent to the session carries the parent header that
\* was captured when the task it comes from was submitted.
OwnParentHeader ==
    \A h \in DOMAIN sink : \A i \in 1..Len(sink[h]) :
       task[sink[h][i].src].parent_header = h

\* Two tasks of different source text are running, and each has output
\* in the sink under its own parent header.
TwoTasksRouted ==
    \E t1 \in Tasks : \E t2 \in Tasks :
       /\ task[t1].cell # task[t2].cell
       /\ is_alive(t1) /\ is_alive(t2)
       /\ task[t1].parent_header # 0 /\ task[t2].parent_header # 0
       /\ \E i \in 1..Len(sink[task[t1].parent_header]) :
             sink[task[t1].parent_header][i].src = t1
       /\ \E i \in 1..Len(sink[task[t2].parent_header]) :
             sink[task[t2].parent_header][i].src = t2

\* One task without a partition name, its worker and its watcher: the
\* first submission of a session whose caller has no globals or one.
ReturnMenu == {"xy", "mod", "fault", "loop"}

ReturnInit == \E g \in {EmptyMap, [k \in {"x"} |-> Simple(1)]} :
                 InitWith(FALSE, g)

ReturnNext ==
    \/ task_counter = 0 /\ SubmitFrom(ReturnMenu, {"None"}, MaxTasks)
    \/ StartTask
    \/ \E t \in Tasks : Worker(t)
    \/ \E t \in Tasks : VStart(t) \/ VRead(t) \/ VMerge(t)

ReturnSpec == ReturnInit /\ [][ReturnNext]_vars

\* The names cell c assigns a plain, serializable value.
AssignedSimple(c) ==
    {CellText[c][i].name :
       i \in {j \in 1..Len(CellText[c]) :
                /\ CellText[c][j].op = "assign"
                /\ IsSimple(CellText[c][j].arg)}}

\* The worker of task t has completed normally.
CompletedNormally(t) ==
    /\ worker[t].pc \in {"returned", "exited"}
    /\ StatusAt(t, "completed") # {}
    /\ StatusAt(t, "error") = {}

\* C8: for a submission without a partition name whose worker completes
\* normally, once the watcher has set transfer_complete the caller's
\* globals bind each name the cell assigned to the worker's value.
GlobalsBoundAfterTransfer ==
    \A t \in Tasks :
       (/\ task[t].cell # ""
        /\ task[t].namespace = "None"
        /\ CompletedNormally(t)
        /\ transfer_complete[t])
       => \A k \in AssignedSimple(task[t].cell) :
             /\ k \in DOMAIN user_ns
             /\ user_ns[k] = worker[t].eg[k]

\* Tasks with and without partition names: the coordinator, the workers
\* and the watchers.
PartitionMenu == {"x100", "x200", "result"}

PartitionNames == {"None", "ns1", "ns2"}

PartitionInit == InitWith(FALSE, EmptyMap)

PartitionNext ==
    \/ SubmitFrom(PartitionMenu, PartitionNames, MaxTasks)
    \/ StopTask
    \/ StartTask
    \/ \E t \in Tasks : Worker(t)
    \/ \E t \in Tasks : Watcher(t)

PartitionSpec == PartitionInit /\ [][PartitionNext]_vars

\* Every binding of a partition is a value the watcher of a task that
\* targets this partition has merged.
PartitionValuesOwn ==
    \A P \in DOMAIN namespaces : \A k \in DOMAIN namespaces[P] :
       \E t \in Tasks :
          /\ task[t].namespace = P
          /\ watcher[t].pc = "dead"
          /\ k \in DOMAIN watcher[t].tv
          /\ watcher[t].tv[k] = namespaces[P][k]

\* A step that changes the caller's globals is the merge of the watcher of
\* a task that was submitted without a partition name.
GlobalsChangedByGlobalTask ==
    user_ns' # user_ns =>
       \E t \in Tasks :
          /\ task[t].namespace = "None"
          /\ watcher[t].pc = "merge"
          /\ watcher'[t].pc = "dead"

PartitionResultInGlobals ==
    \A t \in Tasks :
       (/\ task[t].namespace # "None"
        /\ watcher[t].pc = "dead"
        /\ watcher[t].why # "none")
       => \A k \in explicit_vars(task[t].cell) \cap DOMAIN watcher[t].tv :
             /\ k \in DOMAIN user_ns
             /\ user_ns[k] = watcher[t].tv[k]

\* Submissions to one partition by a caller with or without a global x:
\* the coordinator, the workers and the watchers.
SnapshotMenu == {"x100", "under", "result"}

SnapshotInit == \E g \in {EmptyMap, [k \in {"x"} |-> Simple(1)]} :
                   InitWith(FALSE, g)

SnapshotNext ==
    \/ SubmitFrom(SnapshotMenu, {"ns1"}, MaxTasks)
    \/ StopTask
    \/ StartTask
    \/ \E t \in Tasks : Worker(t)
    \/ \E t \in Tasks : Watcher(t)

SnapshotSpec == SnapshotInit /\ [][SnapshotNext]_vars

\* The snapshot snap binds name n as stated for a submission to partition
\* P: the caller's global value when there is a non-reserved, serializable
\* one, otherwise the value of the partition (of every name of the
\* partition when all holds, of the names outside ipython_builtins_to_skip
\* when it does not), otherwise nothing.
SnapshotBinds(snap, n, P, all) ==
    IF n \in DOMAIN user_ns /\ ~Reserved(n) /\ Dumps(user_ns[n])
    THEN n \in DOMAIN snap /\ snap[n] = user_ns[n]
    ELSE IF n \in DOMAIN namespaces[P]
            /\ (all \/ n \notin ipython_builtins_to_skip)
         THEN n \in DOMAIN snap /\ snap[n] = namespaces[P][n]
         ELSE n \notin DOMAIN snap

\* The step in which background() builds the snapshot of a submission to
\* an existing partition binds every name as SnapshotBinds states.
SnapshotStep(all) ==
    (/\ coord.pc = "spawn"
     /\ task_counter' = task_counter + 1
     /\ coord.namespace \in DOMAIN namespaces)
    => LET snap == task'[task_counter'].serialized_context.ns IN
       \A n \in DOMAIN user_ns \cup DOMAIN namespaces[coord.namespace]
                  \cup DOMAIN snap :
          SnapshotBinds(snap, n, coord.namespace, all)

\* C11 as stated: the snapshot of a submission to an existing partition P
\* binds each name to the caller's global value when the globals have a
\* non-reserved, serializable binding, otherwise to the value last merged
\* into P.
SnapshotGlobalsOverPartitionAll == [][SnapshotStep(TRUE)]_vars

\* C11, amended: the same for every name of P that is not one of
\* ipython_builtins_to_skip; those names of P are left out of the snapshot.
SnapshotGlobalsOverPartition == [][SnapshotStep(FALSE)]_vars

\* A later submission to ns1 has read the x an earlier submission to ns1
\* produced, the caller's globals having no x.
LaterSubmissionSawPartition ==
    \E t \in Tasks :
       /\ task[t].cell = "result"
       /\ task[t].namespace = "ns1"
       /\ "x" \notin DOMAIN user_ns
       /\ "result" \in DOMAIN worker[t].eg
       /\ worker[t].eg["result"] = Simple(100)

\* C12: the transfer-complete event of a task is set on every path of
\* _handle_variable_transfer that reads the result map (the empty result,
\* the merge into the globals, the merge into a partition): when the
\* watcher thread has ended on one of them, the event is set.
TransferCompleteWhenWatcherEnds ==
    \A t \in Tasks :
       (watcher[t].pc = "dead" /\ watcher[t].why # "none")
          => transfer_complete[t]

\* One task of a caller whose globals mix plain values, values that do
\* not dump and reserved names: the first submission of a session and its
\* worker.  Nothing changes the caller's globals here.
CallerGlobals ==
    {[k \in {"x", "g"} |-> IF k = "g" THEN Unpicklable ELSE Simple(1)],
     [k \in {"x", "o", "g", "g2", "_q", "In"} |->
        CASE k = "x" -> Simple(1)
          [] k = "o" -> Obj
          [] k \in {"g", "g2"} -> Unpicklable
          [] OTHER -> Simple(2)],
     [k \in {"x", "_q"} |-> Simple(3)]}

CallerInit == \E g \in CallerGlobals : InitWith(FALSE, g)

CallerNext ==
    \/ task_counter = 0
       /\ SubmitFrom({"xy", "fault", "gen"}, {"None"}, MaxTasks)
    \/ StartTask
    \/ \E t \in Tasks : Worker(t)

CallerSpec == CallerInit /\ [][CallerNext]_vars

\* The worker of task t is about to execute the cell's first statement.
AtExecStart(t) == worker[t].pc = "exec" /\ worker[t].ip = 1

SkipInit == InitWith(FALSE, EmptyMap)

SkipNext ==
    \/ task_counter = 0
       /\ SubmitFrom({"gen", "xy", "fault"}, {"None", "ns1"}, MaxTasks)
    \/ StartTask
    \/ \E t \in Tasks : Worker(t)
    \/ \E t \in Tasks : Watcher(t)

SkipSpec == SkipInit /\ [][SkipNext]_vars

\* The destination of task t's merge: the caller's globals or its partition.
Destination(t) ==
    IF task[t].namespace = "None" THEN user_ns
    ELSE IF task[t].namespace \in DOMAIN namespaces
         THEN namespaces[task[t].namespace]
         ELSE EmptyMap

\* The names the final environment of task t's worker binds to values that
\* fail serialization.
Unserializable(t) ==
    {k \in DOMAIN worker[t].eg : ~Dumps(worker[t].eg[k])}

\* The worker of task t has completed normally and written every value it
\* transfers.
WroteAll(t) ==
    /\ worker[t].pc \in {"finally", "returned", "exited"}
    /\ StatusAt(t, "completed") # {}
    /\ StatusAt(t, "error") = {}

\* The watcher of task t has read the result map after the worker had
\* written all of it, and has merged what it read.
MergedComplete(t) ==
    /\ watcher[t].pc = "dead"
    /\ watcher[t].why \in {"sentinel", "exited"}
    /\ worker[t].pc \in {"finally", "returned", "exited"}

BoundByCell(c) ==
    {CellText[c][i].name :
       i \in {j \in 1..Len(CellText[c]) :
                CellText[c][j].op \in {"assign", "copy", "import"}}}

\* C15: only variables the cell created or modified are returned: a name
\* of the snapshot that the cell does not bind is not written to the
\* result map.
OnlyCellVariablesReturned ==
    \A t \in Tasks :
       \A k \in DOMAIN task[t].serialized_context.ns :
          k \notin BoundByCell(task[t].cell) => k \notin DOMAIN result_dict[t]

\* Supersession where only the coordinator is sure to take its steps: the
\* workers and the listener threads may run or stay where they are for
\* ever.
FairStopSpec == StopSpec /\ WF_vars(StopTask)

DetachInit == InitWith(FALSE, EmptyMap)

DetachNext ==
    \/ SubmitFrom({"x100", "loop"}, {"None", "ns1"}, MaxTasks)
    \/ StopTask
    \/ StartTask
    \/ Unload
    \/ \E t \in Tasks : WorkerReturns(t)
    \/ \E t \in Tasks : Watcher(t)

DetachSpec == DetachInit /\ [][DetachNext]_vars

\* C17: when detach returns, the registry and the digest index are empty,
\* every task it found in the registry has been stopped, and the named
\* partitions have been emptied.
DetachReleasesEverything ==
    [][(coord.pc # "detached" /\ coord'.pc = "detached")
         => /\ background_tasks' = {}
            /\ cell_hash_to_task_id' = EmptyMap
            /\ \A t \in Tasks :
                  (worker[t].pc # "none" /\ t \notin stopped')
                     => ~is_alive(t)
            /\ \A P \in DOMAIN namespaces' : namespaces'[P] = EmptyMap]_vars

\* One task from its submission to the end of its worker, its listener
\* and its watcher, with no later submission and no detach, under the
\* scheduling the threads and processes get: whoever can take a step
\* eventually takes one.
CompleteInit == \E k \in BOOLEAN : InitWith(k, EmptyMap)

CompleteNext ==
    \/ task_counter = 0 /\ SubmitFrom({"out", "xy", "fault"}, {"None", "ns1"},
                                      MaxTasks)
    \/ StartTask
    \/ \E t \in Tasks : Worker(t)
    \/ \E t \in Tasks : Listener(t)
    \/ \E t \in Tasks : Watcher(t)

CompleteSpec == CompleteInit /\ [][CompleteNext]_vars

FairCompleteSpec ==
    /\ CompleteSpec
    /\ WF_vars(StartTask)
    /\ \A t \in Tasks :
          WF_vars(Worker(t)) /\ WF_vars(Listener(t)) /\ WF_vars(Watcher(t))

\* The worker of task t has exited by itself and its listener has drained
\* the queue and ended.
CompletedNaturally(t) ==
    /\ worker[t].pc = "exited"
    /\ listener[t].pc = "dead"
    /\ queue[t] = << >>

\* C18: a task that completes naturally leaves the registry, without a
\* later submission and without a detach.
CompletedLeavesRegistry ==
    \A t \in Tasks : CompletedNaturally(t) ~> (t \notin background_tasks)

\* Submissions of a cell that loops for ever, of one that raises and of
\* one that reads a global, to the globals and to a partition, where only
\* the coordinator is sure to take its steps.
SubmitInit == InitWith(FALSE, [k \in {"x"} |-> Simple(1)])

SubmitNext ==
    \/ SubmitFrom({"loop", "fault", "result"}, {"None", "ns1"}, MaxTasks)
    \/ StopTask
    \/ StartTask
    \/ \E t \in Tasks : Worker(t)
    \/ \E t \in Tasks : Watcher(t)

SubmitSpec == SubmitInit /\ [][SubmitNext]_vars

FairSubmitSpec == SubmitSpec /\ WF_vars(StopTask) /\ WF_vars(StartTask)

\* C19: the submission call always returns: a call of background() that
\* has begun reaches its return, whatever the workers and watchers do.
SubmissionReturns == (coord.pc # "idle") ~> (coord.pc = "idle")

\* A resubmission has returned after stopping the previous task, while
\* its own worker is in a loop that never ends and has written nothing.
ReturnedWhileWorkerLoops ==
    /\ coord.pc = "idle"
    /\ 1 \in stopped
    /\ task[2].cell = "loop"
    /\ is_alive(2)
    /\ result_dict[2] = EmptyMap
    /\ ~transfer_complete[2]

\* The task _stop_task is tearing down, 0 when there is none.
TeardownOf == coord.stopping

\* C20: from the first step of the teardown on, the task being torn down
\* is neither in the registry nor a value of the digest index; so it has
\* left both when its stop flag is set and when its worker is terminated
\* or killed.
UnregisteredBeforeStopped ==
    /\ [](TeardownOf # 0
            => /\ TeardownOf \notin background_tasks
               /\ \A h \in DOMAIN cell_hash_to_task_id :
                     cell_hash_to_task_id[h] # TeardownOf)
    /\ [][\A t \in Tasks :
            (\/ stop_event[t] # stop_event'[t]
             \/ worker[t].pc # "killed" /\ worker'[t].pc = "killed")
               => /\ t \notin background_tasks
                  /\ \A h \in DOMAIN cell_hash_to_task_id :
                        cell_hash_to_task_id[h] # t]_vars

\* A teardown has begun: the task has left the registry and the index,
\* its worker and its listener still run and its stop flag is not yet set.
TeardownBegun ==
    /\ coord.pc = "stop_set"
    /\ is_alive(TeardownOf)
    /\ listener_alive(TeardownOf)
    /\ ~stop_event[TeardownOf]
    /\ TeardownOf \notin background_tasks
    /\ cell_content_hash(task[TeardownOf].cell) \notin
          DOMAIN cell_hash_to_task_id

\* Supersession where a step of the teardown may raise.
ErrStopNext == StopNext \/ StopRaise

ErrStopSpec == StopInit /\ [][ErrStopNext]_vars

\* C21: every call of _stop_task on a registered task updates the task's
\* status indicator to "Task stopped (superseded).": when the call
\* returns, the coordinator has just written that text.
StopAlwaysUpdatesIndicator ==
    [][\A t \in Tasks :
         (t \notin stopped /\ t \in stopped')
            => indicator'[t] = [text |-> "Stopped", by |-> "coordinator"]]_vars

\* C22: the listener of a task is started before its worker, and for a
\* task that is not superseded and has a parent header, when the listener
\* has reached its terminal state every stdout, stderr and display event
\* the worker enqueued has been forwarded to the sink exactly once.
EveryEventForwardedOnce ==
    \A t \in Tasks :
       /\ worker[t].pc # "none" => listener[t].pc # "none"
       /\ (listener[t].pc = "dead" /\ task[t].parent_header # 0
              /\ t \notin stopped)
            => /\ Len(Forwarded(t)) = Len(Enqueued(t))
               /\ \A i \in 1..Len(Forwarded(t)) :
                     Forwards(Forwarded(t)[i], Enqueued(t)[i])

\* The snapshot of task t was serialized but does not load in the worker.
SnapshotUnloadable(t) ==
    /\ task[t].serialized_context.ok
    /\ \E k \in DOMAIN task[t].serialized_context.ns :
          task[t].serialized_context.ns[k] = NoLoad

\* C23: when the snapshot cannot be deserialized in the worker, the
\* source is never executed: the worker enqueues a stderr event,
\* status=error and status=finished_processing and nothing else, writes
\* nothing to the result map and returns.
UnloadableSnapshotNeverRuns ==
    \A t \in Tasks :
       SnapshotUnloadable(t)
          => /\ worker[t].pc \in {"none", "init", "returned", "exited"}
             /\ worker[t].ip = 0
             /\ result_dict[t] = EmptyMap
             /\ hist[t] \in
                  { << >>,
                    << Ev("stderr", "Error deserializing context", ""),
                       Status("error"), Status("finished_processing") >> }
             /\ worker[t].pc \in {"returned", "exited"} => hist[t] # << >>

\* A worker has returned from a snapshot that did not load.
ReturnedFromUnloadable ==
    \E t \in Tasks :
       /\ SnapshotUnloadable(t)
       /\ worker[t].pc = "exited"
       /\ Len(hist[t]) = 3

\* The number of stdout, stderr and display events the listener of task t
\* has taken from the channel.
Taken(t) ==
    Len(Enqueued(t))
      - Len(SelectSeq(queue[t],
                      LAMBDA e : e.type \in {"stdout", "stderr",
                                             "display_data"}))

\* C24: when the listener cannot deserialize a display event's payload it
\* sends the error text as a stderr stream message with the task's parent
\* header and stays in its loop: every event taken from the channel has
\* its message in the sink, and the final outcome is the worker's.
BadPayloadReported ==
    \A t \in Tasks :
       task[t].parent_header # 0
          => /\ Len(Forwarded(t)) = Taken(t)
             /\ \A i \in 1..Len(Forwarded(t)) :
                   (Enqueued(t)[i].type = "display_data"
                       /\ Enqueued(t)[i].content # "payload")
                     => /\ Forwarded(t)[i].msg_type = "stream"
                        /\ Forwarded(t)[i].name = "stderr"
                        /\ Forwarded(t)[i].parent = task[t].parent_header
             /\ listener[t].final_status \in {"Unknown", "completed", "error"}

\* One task in a kernel session, its worker and its listener, for cells
\* that return, that raise, and whose selection of the variables raises
\* after the cell has returned.
OutcomeInit == InitWith(TRUE, EmptyMap)

OutcomeNext ==
    \/ task_counter = 0 /\ SubmitFrom({"xy", "fault", "poke"}, {"None"},
                                      MaxTasks)
    \/ StartTask
    \/ \E t \in Tasks : Worker(t)
    \/ \E t \in Tasks : Listener(t)

OutcomeSpec == OutcomeInit /\ [][OutcomeNext]_vars

\* C25: the listener's final outcome is first-write-wins: once it is
\* completed or error, no later status message changes it; and
\* finished_processing with no outcome received makes it completed.
OutcomeFirstWriteWins ==
    [][\A t \in Tasks :
         /\ listener[t].final_status \in {"completed", "error"}
              => listener'[t].final_status
                    \in {listener[t].final_status, "listener_error"}
         /\ (listener[t].final_status = "Unknown"
                /\ ~listener[t].process_finished
                /\ listener'[t].process_finished)
              => listener'[t].final_status = "completed"]_vars

\* C26: without a parent header or a kernel session the listener still
\* drains the channel and emits every stdout, stderr and display event
\* locally, in arrival order: once the worker has exited, everything it
\* enqueued is eventually emitted.
UncorrelatedStillEmitted ==
    \A t \in Tasks :
       (task[t].parent_header = 0 /\ worker[t].pc = "exited")
          ~> (/\ Len(Forwarded(t)) = Len(Enqueued(t))
              /\ \A i \in 1..Len(Forwarded(t)) :
                    Forwards(Forwarded(t)[i], Enqueued(t)[i]))

\* C27: the sentinel is written after every value the run transfers: in
\* every state where the sentinel is in the result map, each selected
\* value is in the map, and a watcher that stopped polling on the sentinel
\* has read all of them.
SentinelAfterValues ==
    \A t \in Tasks :
       /\ "__transfer_complete__" \in DOMAIN result_dict[t]
            => \A k \in DOMAIN worker[t].sg :
                  /\ k \in DOMAIN result_dict[t]
                  /\ result_dict[t][k] = worker[t].sg[k]
       /\ watcher[t].why = "sentinel"
            => \A k \in (DOMAIN worker[t].sg) \ DunderNames :
                  /\ k \in DOMAIN watcher[t].tv
                  /\ watcher[t].tv[k] = worker[t].sg[k]

\* A watcher has left its poll loop on the sentinel, while the worker was
\* alive, and has read the two values the cell assigned.
ReadOnSentinel ==
    \E t \in Tasks :
       /\ watcher[t].why = "sentinel"
       /\ task[t].cell = "xy"
       /\ {"x", "y"} \subseteq DOMAIN watcher[t].tv

\* Cancellation: submissions of two source texts to the caller's globals
\* and to a partition, the unloading of the extension, the workers and
\* the listener threads.
CancelInit == InitWith(TRUE, EmptyMap)

CancelNext ==
    \/ SubmitFrom({"loop", "exit"}, {"None", "ns1"}, MaxTasks)
    \/ StopTask
    \/ StartTask
    \/ Unload
    \/ \E t \in Tasks : WInit(t) \/ WExec(t) \/ WFinally(t) \/ WExit(t)
    \/ \E t \in Tasks : Listener(t)

CancelSpec == CancelInit /\ [][CancelNext]_vars

\* The coordinator is tearing down task t on behalf of a submission of
\* t's own source text, or of a detach.
CancelledBySameSource(t) ==
    /\ coord.stopping = t
    /\ coord.unloading \/ coord.cell = task[t].cell

\* C28: a worker is terminated only by a submission of the same source
\* text, whatever the partitions, or by detach; a submission of another
\* source text leaves the registered tasks, their workers, listeners and
\* stop flags as they are.
OnlySameSourceCancels ==
    [][\A t \in Tasks :
         /\ (worker[t].pc # "killed" /\ worker'[t].pc = "killed")
               => CancelledBySameSource(t)
         /\ (coord' # coord /\ stop_event'[t] # stop_event[t])
               => CancelledBySameSource(t)
         /\ (t \in background_tasks /\ t \notin background_tasks')
               => coord'.unloading \/ coord'.cell = task[t].cell
         /\ (coord' # coord /\ coord.cell # task[t].cell /\ ~coord.unloading
               /\ coord.pc \notin {"idle", "unload_next"}
               /\ t # task_counter')
               => /\ worker'[t] = worker[t]
                  /\ listener'[t] = listener[t]
                  /\ stop_event'[t] = stop_event[t]
                  /\ (t \in background_tasks') = (t \in background_tasks)]_vars

\* A submission to the caller's globals has terminated the worker of the
\* same source text submitted to a partition, and started its own.
CancelledAcrossPartitions ==
    /\ worker[1].pc = "killed"
    /\ 1 \in stopped
    /\ task[1].cell = task[2].cell
    /\ task[1].namespace = "ns1"
    /\ task[2].namespace = "None"
    /\ is_alive(2)
    /\ ~coord.unloading

\* Two tasks that return values to one destination: submissions of a
\* cell that binds x and y and of a cell that binds x, to the caller's
\* globals or to a partition, their workers and their watchers.
MergeInit == InitWith(FALSE, EmptyMap)

MergeNext ==
    \/ SubmitFrom({"xy", "x100"}, {"None", "ns1"}, MaxTasks)
    \/ StopTask
    \/ StartTask
    \/ \E t \in Tasks : WorkerReturns(t)
    \/ \E t \in Tasks : Watcher(t)

MergeSpec == MergeInit /\ [][MergeNext]_vars

\* The watcher of task t has merged what it read into its destination.
Merged(t) == watcher[t].pc = "dead" /\ watcher[t].tv # EmptyMap

\* The step is the merge of task t's watcher into its destination.
MergeStep(t) ==
    /\ watcher[t].pc \in {"merge", "nsupdate"}
    /\ watcher'[t].pc = "dead"

\* When the watchers of two tasks with the same destination have merged, a
\* key only one of them returned is bound to that task's value.
OnlyReturnerKeeps ==
    \A t \in Tasks : \A u \in Tasks \ {t} :
       (Merged(t) /\ Merged(u) /\ task[t].namespace = task[u].namespace)
          => \A k \in (DOMAIN watcher[t].tv) \ (DOMAIN watcher[u].tv) :
                /\ k \in DOMAIN Destination(t)
                /\ Destination(t)[k] = watcher[t].tv[k]

\* A merge binds every key the watcher returns to the watcher's value, so
\* the destination holds the value of the watcher that merged last.
LastMergeBinds ==
    \A t \in Tasks :
       MergeStep(t)
          => \A k \in DOMAIN watcher[t].tv :
                IF task[t].namespace = "None"
                THEN user_ns'[k] = watcher[t].tv[k]
                ELSE namespaces'[task[t].namespace][k] = watcher[t].tv[k]

\* C29: when two tasks with the same destination both return a key, the
\* destination binds it to the value of the watcher that merged last, and
\* a key only one of them returned keeps that task's value.
LastWriterWinsPerKey ==
    [](OnlyReturnerKeeps) /\ [][LastMergeBinds]_vars

\* C30: once a task's status indicator has been created, only the task's
\* own listener thread updates it: every step that changes it is a step
\* of that listener.
OnlyListenerUpdatesIndicator ==
    [][\A t \in Tasks :
         (indicator[t].text # "none" /\ indicator'[t] # indicator[t])
            => /\ indicator'[t].by = "listener"
               /\ listener[t].pc \in {"tick", "final"}
               /\ coord' = coord]_vars

\* C31: between submission calls the digest index and the registry
\* agree: the index maps to exactly the registered task ids, each
\* registered task is the index's value at its own digest, and no two
\* digests map to the same task.
IndexAgreesWithRegistry ==
    coord.pc = "idle"
       => /\ {cell_hash_to_task_id[h] : h \in DOMAIN cell_hash_to_task_id}
               = background_tasks
          /\ \A t \in background_tasks :
                /\ task[t].cell_hash \in DOMAIN cell_hash_to_task_id
                /\ cell_hash_to_task_id[task[t].cell_hash] = t
          /\ \A h1 \in DOMAIN cell_hash_to_task_id :
                \A h2 \in DOMAIN cell_hash_to_task_id :
                   cell_hash_to_task_id[h1] = cell_hash_to_task_id[h2]
                      => h1 = h2

\* A resubmission has returned: the superseded task has left the registry
\* and the index maps the digest to the new task.
IndexMovedToNewTask ==
    /\ coord.pc = "idle"
    /\ 1 \in stopped
    /\ background_tasks = {2}
    /\ cell_hash_to_task_id[task[1].cell_hash] = 2

\* C32: once _stop_task has been called on a task, its watcher never
\* merges anything into the caller's globals or into a partition.
SupersededNeverMerges ==
    [][\A t \in Tasks :
         MergeStep(t) => (t \notin stopped /\ coord.stopping # t)]_vars

\* C33: what a watcher merges is empty or complete: a watcher that has
\* read values out of the result map has read every value the worker
\* transfers for the run.
MergesAllOrNothing ==
    \A t \in Tasks :
       (watcher[t].pc \in {"merge", "nscreate", "nsupdate", "dead"}
           /\ watcher[t].tv # EmptyMap)
          => /\ worker[t].pc \in {"write", "finally", "returned", "exited",
                                  "killed"}
             /\ DOMAIN watcher[t].tv = (DOMAIN worker[t].sg) \ DunderNames

\* The cell raises a fault that it does not handle.
Raises(c) ==
    /\ c \in Cells
    /\ \E i \in 1..Len(CellText[c]) : CellText[c][i].op = "raise"

\* C34: when the source raises an unhandled fault the worker writes
\* nothing to the result map, no binding of the partial execution reaches
\* the destination, and the watcher takes the empty-result path.
FaultWritesNothing ==
    \A t \in Tasks :
       Raises(task[t].cell)
          => /\ result_dict[t] = EmptyMap
             /\ watcher[t].tv = EmptyMap
             /\ watcher[t].pc \in {"none", "start", "poll", "dead"}
             /\ Destination(t) = EmptyMap
             /\ watcher[t].pc = "dead" => transfer_complete[t]

\* The cell has bound x and raised, its worker has exited and its watcher
\* has ended on the empty result.
FaultEndedEmpty ==
    \E t \in Tasks :
       /\ Raises(task[t].cell)
       /\ "x" \in DOMAIN worker[t].eg
       /\ worker[t].pc = "exited"
       /\ watcher[t].pc = "dead"
       /\ watcher[t].why = "exited"

\* C35: once the listener of a task has made its final "Finished
\* (Completed)" or "Finished (Error)" update, nothing changes the task's
\* status indicator any more.
FinishedIndicatorStays ==
    [][\A t \in Tasks :
         (indicator[t].by = "listener"
             /\ indicator[t].text \in {"completed", "error"})
            => indicator'[t] = indicator[t]]_vars

\* Submissions whose snapshot loops run next to the watcher of an earlier
\* task: cells that bind x and y and that read x, to the caller's globals
\* and to a partition.
RaceInit == InitWith(FALSE, [k \in {"x"} |-> Simple(1)])

RaceNext ==
    \/ SubmitFrom({"xy", "result"}, {"None", "ns1"}, MaxTasks)
    \/ StopTask
    \/ SnapTask
    \/ StartWorker
    \/ Return
    \/ \E t \in Tasks : WorkerReturns(t)
    \/ \E t \in Tasks : Watcher(t)

RaceSpec == RaceInit /\ [][RaceNext]_vars

\* C36: a watcher that merges into the table the coordinator iterates for
\* the snapshot cannot make the submission fail.
SnapshotNeverFails == coord.pc # "raised"

\* One task in a kernel session whose worker may be killed from outside,
\* and its listener; the worker and the listener take the steps they can
\* take.
CrashInit == InitWith(TRUE, EmptyMap)

CrashNext ==
    \/ task_counter = 0 /\ SubmitFrom({"out", "fault"}, {"None"}, MaxTasks)
    \/ StartTask
    \/ \E t \in Tasks : Worker(t)
    \/ \E t \in Tasks : WCrash(t)
    \/ \E t \in Tasks : Listener(t)

CrashSpec == CrashInit /\ [][CrashNext]_vars

FairCrashSpec ==
    /\ CrashSpec
    /\ WF_vars(StartTask)
    /\ \A t \in Tasks : WF_vars(Worker(t)) /\ WF_vars(Listener(t))

\* C37: every listener thread eventually terminates, also when its worker
\* is gone without having enqueued finished_processing.
ListenerTerminates ==
    \A t \in Tasks :
       (~is_alive(t) /\ worker[t].pc # "none" /\ task[t].parent_header # 0)
          ~> (listener[t].pc = "dead")

\* Every value task t's worker has written to the result map is bound in
\* the task's destination.
AllWrittenMerged(t) ==
    \A k \in DOMAIN Transferable(result_dict[t]) :
       /\ k \in DOMAIN Destination(t)
       /\ Destination(t)[k] = result_dict[t][k]

\* C38: every value a worker that is not superseded writes to its result
\* map is eventually merged into the task's destination.
WrittenEventuallyMerged ==
    \A t \in Tasks :
       (worker[t].pc = "exited" /\ t \notin stopped) ~> AllWrittenMerged(t)

\* Task t is the registered task of cell c's digest and its worker is no
\* longer alive.
PreviousDead(c, t) ==
    /\ c \in Cells
    /\ cell_content_hash(c) \in DOMAIN cell_hash_to_task_id
    /\ cell_hash_to_task_id[cell_content_hash(c)] = t
    /\ t \in background_tasks
    /\ ~is_alive(t)

\* C39: a submission that finds the task of its digest with a worker that
\* is no longer alive only drops the task's registry and index entries,
\* and goes on to start the new task: no stop flag is set, nothing is
\* terminated or killed, no indicator is updated.
DeadPreviousOnlyDropped ==
    [][\A t \in Tasks :
         (coord.pc = "idle" /\ coord'.pc \notin {"idle", "detached"}
             /\ ~coord'.unloading /\ PreviousDead(coord'.cell, t))
            => /\ coord'.pc = "spawn"
               /\ background_tasks' = background_tasks \ {t}
               /\ cell_content_hash(coord'.cell)
                     \notin DOMAIN cell_hash_to_task_id'
               /\ stop_event' = stop_event
               /\ worker' = worker
               /\ listener' = listener
               /\ indicator' = indicator
               /\ stopped' = stopped]_vars

\* A resubmission found the first worker exited, dropped its entries and
\* started the second task; the first indicator still shows the
\* listener's final update.
RestartedAfterDeadPrevious ==
    /\ worker[1].pc = "exited"
    /\ 1 \notin stopped
    /\ task[1].cell = task[2].cell
    /\ indicator[1] = [text |-> "completed", by |-> "listener"]
    /\ background_tasks = {2}
    /\ is_alive(2)
    /\ ~coord.unloading

====
